---- MODULE Spec2Model ----
(***************************************************************************)
(* RigArchitect API (src/main.py, src/schemas.py): the component catalog,  *)
(* build creation and validation, the compatibility rules, the wattage     *)
(* estimate, and likes.  The store is three collections: db["component"],  *)
(* db["build"] and db["like"].                                             *)
(***************************************************************************)
EXTENDS Bags, FiniteSets, Integers, Sequences, TLC

VARIABLES
    component,   \* db["component"]: the i-th inserted document has ObjectId i
    build,       \* db["build"]: the i-th inserted document has ObjectId i
    like,        \* db["like"]: a bag of [build_id, user_id] documents
    comment,     \* db["comment"]: the Comment documents, in insertion order
    request,     \* the last request a handler was called with
    response,    \* what that handler returned or raised
    reads,       \* db["component"].find_one calls the last request has made
    thread       \* like_build requests in flight (SpecLike), one per worker thread

vars == <<component, build, like, comment, request, response, reads, thread>>

\* ------------------------------------------------------------------ bounds
MaxComponents == 2      \* documents in db["component"]
MaxRefs == 2            \* BuildComponent entries in one request
MaxBuilds == 1          \* documents in db["build"]
MaxComments == 1        \* documents in db["comment"]
MaxThreads == 2         \* concurrent like_build requests

\* ------------------------------------------------------- optional values
\* Optional[T]: None is the empty tuple, a present value v is <<v>>.
None == <<>>
Some(v) == <<v>>

\* Python truthiness of doc.get(key): None, 0, "" and [] are all falsy.
TruthyInt(o) == o # None /\ o[1] # 0
TruthyStr(o) == o # None /\ o[1] # ""
TruthyList(o) == o # None /\ o[1] # <<>>

\* str.lower() on the socket and RAM-type strings the catalog holds.
Lower(s) ==
    CASE s = "AM5" -> "am5"
      [] s = "LGA1700" -> "lga1700"
      [] s = "DDR4" -> "ddr4"
      [] s = "DDR5" -> "ddr5"
      [] OTHER -> s

\* ------------------------------------------------------------ identifiers
\* A record key is a 24-digit hexadecimal string; the n-th key of a collection:
MaxOid == MaxComponents + MaxBuilds + 1
HexIds == [n \in 1..MaxOid |-> "65f1c0a9b3d4e5f6a7b8c9d" \o ToString(n)]
IdStr(n) == HexIds[n]
BadId == "not-an-id"

\* bson.ObjectId(id_str): the key a well-formed string denotes, 0 when the
\* constructor raises.
ObjectId(id_str) ==
    IF \E n \in 1..MaxOid : IdStr(n) = id_str
    THEN CHOOSE n \in 1..MaxOid : IdStr(n) = id_str
    ELSE 0

\* oid(id_str): the key, or HTTPException(400, "Invalid id").
oid(id_str) ==
    IF ObjectId(id_str) # 0
    THEN [ok |-> TRUE, value |-> ObjectId(id_str)]
    ELSE [ok |-> FALSE, value |-> 0]

\* collection.find_one({"_id": key}): the document, or None.
find_one(collection, key) ==
    IF key \in 1..Len(collection) THEN Some(collection[key]) ELSE None

\* -------------------------------------------------------------- responses
NoResponse ==
    [status |-> 0, detail |-> <<>>, issues |-> <<>>, estimated_wattage |-> 0,
     id |-> "", total_price |-> 0]
Ok == [NoResponse EXCEPT !.status = 200]
HTTPException(status_code, detail) ==
    [NoResponse EXCEPT !.status = status_code, !.detail = detail]
InvalidId == HTTPException(400, <<"Invalid id">>)

\* ---------------------------------------------------------------- catalog
Roles == {"cpu", "motherboard", "ram", "gpu", "storage", "psu", "case", "cooler"}

\* A Component document with every optional attribute unset.
Component(type) ==
    [type |-> type, socket |-> None, tdp |-> None, ram_type |-> None,
     gpu_length_mm |-> None, max_gpu_length_mm |-> None, psu_wattage |-> None,
     psu_form_factor |-> None, case_supported_psu |-> None,
     case_motherboard_support |-> None, motherboard_form_factor |-> None,
     cooler_height_mm |-> None, case_max_cooler_height_mm |-> None,
     price |-> None]

\* The documents add_component is called with (prices in whole currency units).
Cpu == [Component("cpu") EXCEPT !.socket = Some("AM5"), !.tdp = Some(100), !.price = Some(300)]
Mobo ==
    [Component("motherboard") EXCEPT !.socket = Some("am5"), !.ram_type = Some("DDR5"),
        !.motherboard_form_factor = Some("ATX"), !.tdp = Some(50), !.price = Some(200)]
MoboIntel ==
    [Component("motherboard") EXCEPT !.socket = Some("LGA1700"),
        !.motherboard_form_factor = Some("E-ATX")]
Ram == [Component("ram") EXCEPT !.ram_type = Some("DDR4"), !.price = Some(80)]
Gpu == [Component("gpu") EXCEPT !.gpu_length_mm = Some(350), !.tdp = Some(300), !.price = Some(900)]
Case ==
    [Component("case") EXCEPT !.max_gpu_length_mm = Some(320),
        !.case_max_cooler_height_mm = Some(160), !.case_supported_psu = Some(<<"ATX", "SFX">>),
        !.case_motherboard_support = Some(<<"ATX", "Micro-ATX">>), !.price = Some(100)]
Cooler == [Component("cooler") EXCEPT !.cooler_height_mm = Some(170), !.tdp = Some(5)]
Psu ==
    [Component("psu") EXCEPT !.psu_wattage = Some(350), !.psu_form_factor = Some("SFX-L"),
        !.price = Some(120)]
Psu0 == [Component("psu") EXCEPT !.psu_wattage = Some(0), !.psu_form_factor = Some("ATX")]
Storage == [Component("storage") EXCEPT !.tdp = Some(10), !.price = Some(60)]

Catalog == {Cpu, Mobo, MoboIntel, Ram, Gpu, Case, Cooler, Psu, Psu0, Storage}

\* ------------------------------------------------------------- requests
NoRequest ==
    [op |-> "", build |-> <<>>, build_id |-> "", user_id |-> "", is_anchor |-> None,
     title |-> None, description |-> None]

\* A Build request body (schemas.Build); title and description are free text.
Build(components, total_price, likes) ==
    [title |-> "rig", description |-> None, is_anchor |-> FALSE,
     components |-> components, total_price |-> total_price, likes |-> likes]

\* BuildComponent entries a client sends against the current catalog: a stored
\* component under the type the catalog records for it, a well-formed key with
\* no document under any role, or a malformed key.
BuildComponents(roles) ==
    {[component_id |-> IdStr(i), type |-> component[i].type] : i \in 1..Len(component)}
    \cup {[component_id |-> IdStr(i), type |-> r] :
            i \in (Len(component) + 1)..MaxComponents, r \in roles}
    \cup {[component_id |-> BadId, type |-> "cpu"]}

ComponentLists(n, roles) == [1..n -> BuildComponents(roles)]

\* The build keys a client sends: of a stored or not yet stored build, or malformed.
BuildIds == {IdStr(n) : n \in 1..MaxBuilds} \cup {BadId}
Users == {"ann", "bob"}

\* ------------------------------------------------------ wattage estimate
\* Mutant: the product rounded to the nearest integer instead of truncated.
HeadroomRounded(total_tdp) == IF total_tdp # 0 THEN (13 * total_tdp + 5) \div 10 ELSE 0

\* int(total_tdp * 1.3): the double product of an integer below 2^20 and 1.3
\* truncates to the integer quotient of 13 * total_tdp by 10.
Headroom(total_tdp) == IF total_tdp # 0 THEN (13 * total_tdp) \div 10 ELSE 0

\* The loop of estimate_wattage from entry i on, total_tdp so far, n lookups made.
RECURSIVE EstimateFrom(_, _, _, _)
EstimateFrom(components, i, total_tdp, n) ==
    IF i > Len(components)
    THEN [ok |-> TRUE, value |-> Headroom(total_tdp), reads |-> n]
    ELSE LET key == oid(components[i].component_id)
             comp == find_one(component, key.value)
         IN IF ~key.ok
            THEN [ok |-> FALSE, value |-> 0, reads |-> n]
            ELSE EstimateFrom(components, i + 1,
                     IF comp # None /\ TruthyInt(comp[1].tdp)
                     THEN total_tdp + comp[1].tdp[1] ELSE total_tdp,
                     n + 1)

estimate_wattage(b) == EstimateFrom(b.components, 1, 0, 0)

\* --------------------------------------------------------- compatibility
\* comps = {bc.type: find_one(oid(bc.component_id)) for bc in build.components}:
\* a later entry of the same type replaces an earlier one; oid raises at the
\* first malformed key, after the lookups of the entries before it.
NoComps == [r \in Roles |-> None]

\* Mutant: strict resolution, a reference without a document raises.
RECURSIVE CompsFromStrict(_, _, _, _)
CompsFromStrict(components, i, comps, n) ==
    IF i > Len(components)
    THEN [ok |-> TRUE, comps |-> comps, reads |-> n]
    ELSE LET bc == components[i]
             key == oid(bc.component_id)
         IN IF ~key.ok \/ find_one(component, key.value) = None
            THEN [ok |-> FALSE, comps |-> comps, reads |-> n]
            ELSE CompsFromStrict(components, i + 1,
                     [comps EXCEPT ![bc.type] = find_one(component, key.value)], n + 1)

RECURSIVE CompsFrom(_, _, _, _)
CompsFrom(components, i, comps, n) ==
    IF i > Len(components)
    THEN [ok |-> TRUE, comps |-> comps, reads |-> n]
    ELSE LET bc == components[i]
             key == oid(bc.component_id)
         IN IF ~key.ok
            THEN [ok |-> FALSE, comps |-> comps, reads |-> n]
            ELSE CompsFrom(components, i + 1,
                     [comps EXCEPT ![bc.type] = find_one(component, key.value)], n + 1)

Contains(list, x) == \E k \in 1..Len(list) : list[k] = x

SocketRule(cpu, mobo) ==
    IF cpu # None /\ mobo # None /\ TruthyStr(cpu[1].socket) /\ TruthyStr(mobo[1].socket)
       /\ Lower(cpu[1].socket[1]) # Lower(mobo[1].socket[1])
    THEN << <<"CPU socket ", cpu[1].socket[1], " not compatible with motherboard ",
              mobo[1].socket[1]>> >>
    ELSE <<>>

\* Mutant: the RAM types compared without asking whether both are declared.
RamRuleUnguarded(ram, mobo) ==
    IF ram # None /\ mobo # None /\ ram[1].ram_type # mobo[1].ram_type
    THEN << <<"RAM type ", "", " not compatible with motherboard ", "">> >>
    ELSE <<>>

RamRule(ram, mobo) ==
    IF ram # None /\ mobo # None /\ TruthyStr(ram[1].ram_type) /\ TruthyStr(mobo[1].ram_type)
       /\ Lower(ram[1].ram_type[1]) # Lower(mobo[1].ram_type[1])
    THEN << <<"RAM type ", ram[1].ram_type[1], " not compatible with motherboard ",
              mobo[1].ram_type[1]>> >>
    ELSE <<>>

GpuRule(gpu, case) ==
    IF gpu # None /\ case # None /\ TruthyInt(gpu[1].gpu_length_mm)
       /\ TruthyInt(case[1].max_gpu_length_mm)
       /\ gpu[1].gpu_length_mm[1] > case[1].max_gpu_length_mm[1]
    THEN << <<"GPU length exceeds case maximum">> >>
    ELSE <<>>

CoolerRule(cooler, case) ==
    IF cooler # None /\ case # None /\ TruthyInt(cooler[1].cooler_height_mm)
       /\ TruthyInt(case[1].case_max_cooler_height_mm)
       /\ cooler[1].cooler_height_mm[1] > case[1].case_max_cooler_height_mm[1]
    THEN << <<"Cooler height exceeds case maximum">> >>
    ELSE <<>>

PsuWattageRule(psu, est_watts) ==
    IF psu # None /\ TruthyInt(psu[1].psu_wattage) /\ est_watts # 0
       /\ psu[1].psu_wattage[1] < est_watts
    THEN << <<"PSU wattage too low. Estimated ", ToString(est_watts), "W, PSU is ",
              ToString(psu[1].psu_wattage[1]), "W">> >>
    ELSE <<>>

PsuFormRule(psu, case) ==
    IF psu # None /\ case # None /\ TruthyStr(psu[1].psu_form_factor)
       /\ TruthyList(case[1].case_supported_psu)
       /\ ~Contains(case[1].case_supported_psu[1], psu[1].psu_form_factor[1])
    THEN << <<"PSU form factor not supported by case">> >>
    ELSE <<>>

MoboFormRule(mobo, case) ==
    IF mobo # None /\ case # None /\ TruthyStr(mobo[1].motherboard_form_factor)
       /\ TruthyList(case[1].case_motherboard_support)
       /\ ~Contains(case[1].case_motherboard_support[1], mobo[1].motherboard_form_factor[1])
    THEN << <<"Motherboard form factor not supported by case">> >>
    ELSE <<>>

\* compatibility_issues(build): the issues in rule order, or the Invalid id
\* raised while resolving (ok = FALSE); reads counts the lookups made.
compatibility_issues(b) ==
    LET got == CompsFrom(b.components, 1, NoComps, 0)
        comps == got.comps
        est == estimate_wattage(b)
    IN IF ~got.ok
       THEN [ok |-> FALSE, issues |-> <<>>, reads |-> got.reads]
       ELSE [ok |-> TRUE,
             issues |-> SocketRule(comps["cpu"], comps["motherboard"])
                        \o RamRule(comps["ram"], comps["motherboard"])
                        \o GpuRule(comps["gpu"], comps["case"])
                        \o CoolerRule(comps["cooler"], comps["case"])
                        \o PsuWattageRule(comps["psu"], est.value)
                        \o PsuFormRule(comps["psu"], comps["case"])
                        \o MoboFormRule(comps["motherboard"], comps["case"]),
             reads |-> got.reads + est.reads]

\* ------------------------------------------------------------- handlers
\* POST /api/components: create_document("component", component).
add_component(doc) ==
    /\ Len(component) < MaxComponents
    /\ component' = Append(component, doc)
    /\ request' = [NoRequest EXCEPT !.op = "add_component"]
    /\ response' = [Ok EXCEPT !.id = IdStr(Len(component) + 1)]
    /\ reads' = 0
    /\ UNCHANGED <<build, like, comment, thread>>

\* POST /api/builds/validate
validate_build(b) ==
    LET checked == compatibility_issues(b)
        watts == estimate_wattage(b)
    IN /\ request' = [NoRequest EXCEPT !.op = "validate_build", !.build = b]
       /\ response' =
            IF ~checked.ok THEN InvalidId
            ELSE [Ok EXCEPT !.issues = checked.issues, !.estimated_wattage = watts.value]
       /\ reads' = IF checked.ok THEN checked.reads + watts.reads ELSE checked.reads
       /\ UNCHANGED <<component, build, like, comment, thread>>

\* Mutant: a reference without a document is skipped instead of rejected.
RECURSIVE PriceFromLenient(_, _, _, _)
PriceFromLenient(components, i, total, n) ==
    IF i > Len(components)
    THEN [error |-> Ok, total |-> total, reads |-> n]
    ELSE LET key == oid(components[i].component_id)
             doc == find_one(component, key.value)
         IN IF ~key.ok
            THEN [error |-> InvalidId, total |-> total, reads |-> n]
            ELSE PriceFromLenient(components, i + 1,
                     IF doc # None /\ TruthyInt(doc[1].price)
                     THEN total + doc[1].price[1] ELSE total,
                     n + 1)

\* The pricing loop of create_build from entry i on: total so far, n lookups made.
RECURSIVE PriceFrom(_, _, _, _)
PriceFrom(components, i, total, n) ==
    IF i > Len(components)
    THEN [error |-> Ok, total |-> total, reads |-> n]
    ELSE LET bc == components[i]
             key == oid(bc.component_id)
             doc == find_one(component, key.value)
         IN IF ~key.ok
            THEN [error |-> InvalidId, total |-> total, reads |-> n]
            ELSE IF doc = None
            THEN [error |-> HTTPException(404, <<"Component not found: ", bc.component_id>>),
                  total |-> total, reads |-> n + 1]
            ELSE PriceFrom(components, i + 1,
                     IF TruthyInt(doc[1].price) THEN total + doc[1].price[1] ELSE total,
                     n + 1)

\* Mutant: the total_price of the request body kept when the client sent one.
bdictTrusting(b, total) ==
    [b EXCEPT !.total_price = IF b.total_price # None THEN b.total_price[1] ELSE total]

\* bdict = build.model_dump(); bdict["total_price"] = total
bdict(b, total) == [b EXCEPT !.total_price = total]

\* POST /api/builds
create_build(b) ==
    LET priced == PriceFrom(b.components, 1, 0, 0)
        checked == compatibility_issues(b)
        result ==
            IF priced.error # Ok THEN priced.error
            ELSE IF ~checked.ok THEN InvalidId
            ELSE IF checked.issues # <<>>
            THEN [HTTPException(400, <<"errors">>) EXCEPT !.issues = checked.issues]
            ELSE [Ok EXCEPT !.id = IdStr(Len(build) + 1), !.total_price = priced.total]
    IN /\ Len(build) < MaxBuilds
       /\ request' = [NoRequest EXCEPT !.op = "create_build", !.build = b]
       /\ response' = result
       /\ reads' = IF priced.error # Ok THEN priced.reads ELSE priced.reads + checked.reads
       /\ build' = IF result.status = 200 THEN Append(build, bdict(b, priced.total)) ELSE build
       /\ UNCHANGED <<component, like, comment, thread>>

\* PATCH /api/builds/{build_id}
update_build(build_id, is_anchor, title, description) ==
    LET key == oid(build_id)
        result ==
            IF is_anchor = None /\ title = None /\ description = None
            THEN HTTPException(400, <<"No fields to update">>)
            ELSE IF ~key.ok THEN InvalidId
            ELSE IF find_one(build, key.value) = None
            THEN HTTPException(404, <<"Build not found">>)
            ELSE [Ok EXCEPT !.detail = <<"updated">>]
    IN /\ request' = [NoRequest EXCEPT !.op = "update_build", !.build_id = build_id,
                         !.is_anchor = is_anchor, !.title = title, !.description = description]
       /\ response' = result
       /\ reads' = 0
       /\ build' =
            IF result.status = 200
            THEN [build EXCEPT ![key.value] =
                    [@ EXCEPT !.is_anchor = IF is_anchor # None THEN is_anchor[1] ELSE @,
                              !.title = IF title # None THEN title[1] ELSE @,
                              !.description = IF description # None THEN description ELSE @]]
            ELSE build
       /\ UNCHANGED <<component, like, comment, thread>>

\* The three store calls of like_build.
Like(build_id, user_id) == [build_id |-> build_id, user_id |-> user_id]
\* db["like"].find_one({"build_id": build_id, "user_id": user_id})
LikeExists(build_id, user_id) == CopiesIn(Like(build_id, user_id), like) > 0
\* db["like"].insert_one({"build_id": build_id, "user_id": user_id})
LikeInserted(build_id, user_id) == like (+) SetToBag({Like(build_id, user_id)})
\* db["build"].update_one({"_id": key}, {"$inc": {"likes": 1}}): no match, no change
LikesIncremented(key) ==
    IF key \in 1..Len(build) THEN [build EXCEPT ![key].likes = @ + 1] ELSE build

\* POST /api/builds/{build_id}/like, served without interleaving
like_build(build_id, user_id) ==
    LET key == oid(build_id)
    IN /\ request' = [NoRequest EXCEPT !.op = "like_build", !.build_id = build_id,
                         !.user_id = user_id]
       /\ reads' = 0
       /\ IF LikeExists(build_id, user_id)
          THEN /\ response' = HTTPException(400, <<"Already liked">>)
               /\ UNCHANGED <<like, build>>
          ELSE /\ like' = LikeInserted(build_id, user_id)
               /\ IF ~key.ok
                  THEN response' = InvalidId /\ UNCHANGED build
                  ELSE response' = [Ok EXCEPT !.detail = <<"ok">>]
                       /\ build' = LikesIncremented(key.value)
       /\ UNCHANGED <<component, comment, thread>>

\* POST /api/builds/{build_id}/comment, payload a Comment with its own build_id
comment_build(build_id, payload) ==
    /\ Len(comment) < MaxComments
    /\ request' = [NoRequest EXCEPT !.op = "comment_build", !.build_id = build_id]
    /\ reads' = 0
    /\ IF payload.build_id # build_id
       THEN response' = HTTPException(400, <<"build_id mismatch">>) /\ UNCHANGED comment
       ELSE /\ comment' = Append(comment, payload)
            /\ response' = [Ok EXCEPT !.id = IdStr(Len(comment) + 1)]
    /\ UNCHANGED <<component, build, like, thread>>

\* POST /api/builds/{build_id}/like on worker thread t, one store call per step:
\* the request arrives,
like_call(t, build_id, user_id) ==
    /\ thread[t].pc = "idle"
    /\ thread' = [thread EXCEPT ![t] = [pc |-> "find", build_id |-> build_id, user_id |-> user_id]]
    /\ UNCHANGED <<component, build, like, comment, request, response, reads>>

\* existing = db["like"].find_one(...); raise "Already liked" when there is one,
like_find(t) ==
    /\ thread[t].pc = "find"
    /\ thread' = [thread EXCEPT ![t].pc =
            IF LikeExists(thread[t].build_id, thread[t].user_id) THEN "idle" ELSE "insert"]
    /\ UNCHANGED <<component, build, like, comment, request, response, reads>>

\* db["like"].insert_one(...),
like_insert(t) ==
    /\ thread[t].pc = "insert"
    /\ like' = LikeInserted(thread[t].build_id, thread[t].user_id)
    /\ thread' = [thread EXCEPT ![t].pc = "update"]
    /\ UNCHANGED <<component, build, comment, request, response, reads>>

\* db["build"].update_one({"_id": oid(build_id)}, {"$inc": {"likes": 1}}) and return.
like_update(t) ==
    /\ thread[t].pc = "update"
    /\ build' = IF oid(thread[t].build_id).ok
                THEN LikesIncremented(oid(thread[t].build_id).value) ELSE build
    /\ thread' = [thread EXCEPT ![t].pc = "idle"]
    /\ UNCHANGED <<component, like, comment, request, response, reads>>

\* The response goes back to the client and the next request can be served.
respond ==
    /\ request # NoRequest
    /\ request' = NoRequest
    /\ response' = NoResponse
    /\ reads' = 0
    /\ UNCHANGED <<component, build, like, comment, thread>>

Init ==
    /\ component = <<>>
    /\ build = <<>>
    /\ like = EmptyBag
    /\ comment = <<>>
    /\ request = NoRequest
    /\ response = NoResponse
    /\ reads = 0
    /\ thread = [t \in 1..MaxThreads |-> [pc |-> "idle", build_id |-> "", user_id |-> ""]]

\* One request is served at a time: a handler runs once the previous response is out.
Idle == request = NoRequest

NextValidate ==
    \/ Idle /\ \E doc \in Catalog : add_component(doc)
    \/ Idle /\ \E n \in 0..MaxRefs : \E cs \in ComponentLists(n, Roles) :
                    validate_build(Build(cs, None, 0))
    \/ respond

SpecValidate == Init /\ [][NextValidate]_vars

\* The documents and request bodies of the build life cycle.
Parts == {Cpu, Mobo, MoboIntel}
Comments == {[build_id |-> id, content |-> "nice"] : id \in BuildIds}

Next ==
    \/ Idle /\ \E doc \in Parts : add_component(doc)
    \/ Idle /\ \E n \in 0..MaxRefs : \E cs \in ComponentLists(n, {"motherboard"}) :
                    \E total_price \in {None, Some(1)}, likes \in {0, 1} :
                        create_build(Build(cs, total_price, likes))
    \/ Idle /\ \E build_id \in BuildIds, is_anchor \in {None, Some(TRUE)},
                    text \in {None, Some("showcase")} :
                        update_build(build_id, is_anchor, text, text)
    \/ Idle /\ \E build_id \in BuildIds, user_id \in Users : like_build(build_id, user_id)
    \/ Idle /\ \E build_id \in BuildIds, payload \in Comments :
                    comment_build(build_id, payload)
    \/ respond

Spec == Init /\ [][Next]_vars

\* Build creation against a growing catalog.
NextCreate ==
    \/ Idle /\ \E doc \in Parts : add_component(doc)
    \/ Idle /\ \E n \in 0..MaxRefs : \E cs \in ComponentLists(n, {"motherboard"}) :
                    \E total_price \in {None, Some(1)} :
                        create_build(Build(cs, total_price, 0))
    \/ respond

SpecCreate == Init /\ [][NextCreate]_vars

\* The two handlers that resolve a build's references, against a growing catalog.
NextResolve ==
    \/ Idle /\ \E doc \in Parts : add_component(doc)
    \/ Idle /\ \E n \in 0..MaxRefs : \E cs \in ComponentLists(n, {"motherboard"}) :
                    create_build(Build(cs, None, 0))
    \/ Idle /\ \E n \in 0..MaxRefs : \E cs \in ComponentLists(n, {"motherboard"}) :
                    validate_build(Build(cs, None, 0))
    \/ respond

SpecResolve == Init /\ [][NextResolve]_vars

\* like_build requests served concurrently by the worker threads.
NextLike ==
    \/ Idle /\ create_build(Build(<<>>, None, 0))
    \/ respond
    \/ \E t \in 1..MaxThreads :
          \/ \E i \in 1..Len(build), user_id \in Users : like_call(t, IdStr(i), user_id)
          \/ like_find(t)
          \/ like_insert(t)
          \/ like_update(t)

SpecLike == Init /\ [][NextLike]_vars

\* ===================================================================
\* Properties of validation (SpecValidate)
\* ===================================================================
Validated == request.op = "validate_build"
Returned == response.status = 200
Refs == request.build.components

WellFormedId(id) == \E n \in 1..MaxOid : HexIds[n] = id
InCatalog(id) == \E n \in 1..Len(component) : HexIds[n] = id
MissingId(id) == WellFormedId(id) /\ ~InCatalog(id)
DocOf(id) == component[CHOOSE n \in 1..Len(component) : HexIds[n] = id]
AllWellFormed(cs) == \A i \in 1..Len(cs) : WellFormedId(cs[i].component_id)

\* The resolved component set: role -> the document of the last entry playing
\* the role, None when no entry plays it or that entry has no document.
RoleDoc(cs, r) ==
    LET playing == {i \in 1..Len(cs) : cs[i].type = r}
        last == CHOOSE i \in playing : \A j \in playing : j <= i
    IN IF playing # {} /\ InCatalog(cs[last].component_id)
       THEN Some(DocOf(cs[last].component_id))
       ELSE None

RECURSIVE SumSeq(_)
SumSeq(s) == IF s = <<>> THEN 0 ELSE Head(s) + SumSeq(Tail(s))

RECURSIVE SumSet(_, _)
SumSet(f, S) == IF S = {} THEN 0 ELSE LET x == CHOOSE x \in S : TRUE IN f[x] + SumSet(f, S \ {x})

DeclaredTdp(doc) == IF doc # None /\ doc[1].tdp # None THEN doc[1].tdp[1] ELSE 0
\* E(0) = 0, E(S) = floor(1.3 * S)
E(S) == IF S = 0 THEN 0 ELSE (13 * S) \div 10

\* tdp summed over the references of the list, each one counted
TdpOverReferences(cs) ==
    SumSeq([i \in 1..Len(cs) |->
        IF InCatalog(cs[i].component_id) THEN DeclaredTdp(Some(DocOf(cs[i].component_id))) ELSE 0])
\* tdp summed over the role -> Component mapping
TdpOverRoles(cs) == SumSet([r \in Roles |-> DeclaredTdp(RoleDoc(cs, r))], Roles)

RuleOrder ==
    <<"socket", "ram_type", "gpu_clearance", "cooler_clearance", "psu_sizing",
      "psu_form_factor", "motherboard_form_factor">>
RuleNames == {RuleOrder[k] : k \in 1..Len(RuleOrder)}

RuleOfMessage(m) ==
    CASE m[1] = "CPU socket " -> "socket"
      [] m[1] = "RAM type " -> "ram_type"
      [] m[1] = "GPU length exceeds case maximum" -> "gpu_clearance"
      [] m[1] = "Cooler height exceeds case maximum" -> "cooler_clearance"
      [] m[1] = "PSU wattage too low. Estimated " -> "psu_sizing"
      [] m[1] = "PSU form factor not supported by case" -> "psu_form_factor"
      [] m[1] = "Motherboard form factor not supported by case" -> "motherboard_form_factor"
      [] OTHER -> "unknown"

Reported(rule) == \E k \in 1..Len(response.issues) : RuleOfMessage(response.issues[k]) = rule

RuleRoles(rule) ==
    CASE rule = "socket" -> {"cpu", "motherboard"}
      [] rule = "ram_type" -> {"ram", "motherboard"}
      [] rule = "gpu_clearance" -> {"gpu", "case"}
      [] rule = "cooler_clearance" -> {"cooler", "case"}
      [] rule = "psu_sizing" -> {"psu"}
      [] rule = "psu_form_factor" -> {"psu", "case"}
      [] rule = "motherboard_form_factor" -> {"motherboard", "case"}

\* A rule has nothing to compare: a role it needs is unresolved or an attribute
\* it compares is not declared (for PSU sizing: no psu_wattage, or estimate 0).
NothingToCompare(rule, cs, est) ==
    LET d(r) == RoleDoc(cs, r)
        no(r, attr) == d(r) = None \/ d(r)[1][attr] = None
    IN CASE rule = "socket" -> no("cpu", "socket") \/ no("motherboard", "socket")
         [] rule = "ram_type" -> no("ram", "ram_type") \/ no("motherboard", "ram_type")
         [] rule = "gpu_clearance" ->
                no("gpu", "gpu_length_mm") \/ no("case", "max_gpu_length_mm")
         [] rule = "cooler_clearance" ->
                no("cooler", "cooler_height_mm") \/ no("case", "case_max_cooler_height_mm")
         [] rule = "psu_sizing" -> no("psu", "psu_wattage") \/ est = 0
         [] rule = "psu_form_factor" ->
                no("psu", "psu_form_factor") \/ no("case", "case_supported_psu")
         [] rule = "motherboard_form_factor" ->
                no("motherboard", "motherboard_form_factor")
                \/ no("case", "case_motherboard_support")

\* A rule is violated: both sides declare the attribute and the comparison fails.
Violated(rule, cs, est) ==
    LET v(r, attr) == RoleDoc(cs, r)[1][attr][1]
    IN /\ ~NothingToCompare(rule, cs, est)
       /\ CASE rule = "socket" -> Lower(v("cpu", "socket")) # Lower(v("motherboard", "socket"))
            [] rule = "ram_type" ->
                   Lower(v("ram", "ram_type")) # Lower(v("motherboard", "ram_type"))
            [] rule = "gpu_clearance" ->
                   v("gpu", "gpu_length_mm") > v("case", "max_gpu_length_mm")
            [] rule = "cooler_clearance" ->
                   v("cooler", "cooler_height_mm") > v("case", "case_max_cooler_height_mm")
            [] rule = "psu_sizing" -> v("psu", "psu_wattage") < est
            [] rule = "psu_form_factor" ->
                   ~Contains(v("case", "case_supported_psu"), v("psu", "psu_form_factor"))
            [] rule = "motherboard_form_factor" ->
                   ~Contains(v("case", "case_motherboard_support"),
                             v("motherboard", "motherboard_form_factor"))

\* C1: when the build's psu declares psu_wattage (0 included) and the estimate is
\* non-zero, the PSU-wattage violation is reported if and only if psu_wattage is
\* below the estimate, and the message contains the estimate and the wattage.
C1_PsuSizing ==
    LET psu == RoleDoc(Refs, "psu")
        est == response.estimated_wattage
    IN (Validated /\ Returned /\ psu # None /\ psu[1].psu_wattage # None /\ est # 0)
       => /\ Reported("psu_sizing") <=> psu[1].psu_wattage[1] < est
          /\ \A k \in 1..Len(response.issues) :
                RuleOfMessage(response.issues[k]) = "psu_sizing"
                => /\ Contains(response.issues[k], ToString(est))
                   /\ Contains(response.issues[k], ToString(psu[1].psu_wattage[1]))

\* C2 as stated: the estimate is E(S), S the tdp summed over the role -> Component
\* mapping the compatibility checker uses.
C2_EstimateOverRoleMapping ==
    (Validated /\ Returned) => response.estimated_wattage = E(TdpOverRoles(Refs))

\* C2 amended: for a build whose component ids are all well-formed, the estimate
\* is E(S), S the tdp summed over every reference of the component list that has
\* a catalog entry, each reference counted (two references playing the same role
\* both count); E(0) = 0 and E(S) = (13 * S) div 10 otherwise.
C2_EstimateOverReferences ==
    (Validated /\ AllWellFormed(Refs))
    => /\ Returned
       /\ response.estimated_wattage = E(TdpOverReferences(Refs))

\* C2 witness: two references play the same role and both count in the estimate.
C2_Witness ==
    /\ Validated /\ Returned /\ Len(Refs) = 2
    /\ Refs[1].type = Refs[2].type
    /\ TdpOverReferences(Refs) = 600
    /\ response.estimated_wattage = 780

\* C3: the issues are exactly one message per violated rule, none for a rule not
\* violated, in the order socket, RAM type, GPU clearance, cooler clearance, PSU
\* sizing, PSU form factor, motherboard form factor.
C3_AllRulesInOrder ==
    (Validated /\ Returned)
    => [k \in 1..Len(response.issues) |-> RuleOfMessage(response.issues[k])]
       = SelectSeq(RuleOrder, LAMBDA rule : Violated(rule, Refs, response.estimated_wattage))

\* C4 as stated: a rule with nothing to compare reports nothing and
\* compatibility_issues raises no error.
C4_NothingToCompareNoError ==
    Validated
    => \A rule \in RuleNames :
          NothingToCompare(rule, Refs, response.estimated_wattage)
          => Returned /\ ~Reported(rule)

\* C4 amended: a rule with nothing to compare reports nothing, and
\* compatibility_issues raises no error except the invalid-id error, raised
\* exactly when some component_id of the build is malformed.
C4_NothingToCompare ==
    Validated
    => /\ Returned <=> AllWellFormed(Refs)
       /\ ~Returned => response = InvalidId
       /\ Returned => \A rule \in RuleNames :
             NothingToCompare(rule, Refs, response.estimated_wattage) => ~Reported(rule)

\* C4 witness: ram and motherboard are both resolved, the motherboard declares no
\* ram_type, and validation returns without a RAM-type issue.
C4_Witness ==
    /\ Validated /\ Returned
    /\ RoleDoc(Refs, "ram") # None /\ RoleDoc(Refs, "motherboard") # None
    /\ RoleDoc(Refs, "ram")[1].ram_type # None
    /\ RoleDoc(Refs, "motherboard")[1].ram_type = None
    /\ ~Reported("ram_type")

\* C6 as stated: a build with a well-formed component_id that has no catalog
\* entry validates normally, no rule needing that reference's role reports, and
\* the missing component adds 0 to the estimate.
C6_LenientValidation ==
    (Validated /\ \E i \in 1..Len(Refs) : MissingId(Refs[i].component_id))
    => /\ Returned
       /\ \A i \in 1..Len(Refs) : MissingId(Refs[i].component_id)
             => \A rule \in RuleNames : Refs[i].type \in RuleRoles(rule) => ~Reported(rule)
       /\ response.estimated_wattage = E(TdpOverReferences(Refs))

\* C6 amended: a build whose component ids are all well-formed and one of which
\* has no catalog entry validates normally; a role whose last reference in the
\* list has no catalog entry is absent, so no rule needing it reports; the
\* missing component adds 0 to the estimate.
C6_LenientValidationWellFormed ==
    (Validated /\ AllWellFormed(Refs) /\ \E i \in 1..Len(Refs) : MissingId(Refs[i].component_id))
    => /\ Returned
       /\ \A i \in 1..Len(Refs) :
             (/\ MissingId(Refs[i].component_id)
              /\ \A j \in (i + 1)..Len(Refs) : Refs[j].type # Refs[i].type)
             => \A rule \in RuleNames : Refs[i].type \in RuleRoles(rule) => ~Reported(rule)
       /\ response.estimated_wattage = E(TdpOverReferences(Refs))

\* C6 witness: a cpu is resolved, the motherboard reference has no catalog entry,
\* validation returns no issue and the estimate of the cpu alone.
C6_Witness ==
    /\ Validated /\ Returned /\ Len(Refs) = 2
    /\ InCatalog(Refs[1].component_id) /\ Refs[1].type = "cpu"
    /\ MissingId(Refs[2].component_id) /\ Refs[2].type = "motherboard"
    /\ response.issues = <<>>
    /\ response.estimated_wattage = 130

\* ===================================================================
\* Properties of build creation (SpecCreate, SpecResolve, Spec) and of likes
\* (SpecLike)
\* ===================================================================
Created == request.op = "create_build"

\* The first reference of the list that is malformed or has no catalog entry.
FirstUnresolved(cs) ==
    CHOOSE i \in 1..Len(cs) :
        /\ ~InCatalog(cs[i].component_id)
        /\ \A j \in 1..(i - 1) : InCatalog(cs[j].component_id)

NotFound(id) == HTTPException(404, <<"Component not found: ", id>>)

\* A step in which create_build fails leaves db["build"] as it was.
FailedCreationInsertsNothing ==
    (Idle /\ request'.op = "create_build" /\ response'.status # 200) => build' = build

\* C5 as stated: a build with a well-formed component_id that has no catalog
\* entry makes create_build fail with the not-found error naming it, and the
\* build collection is unchanged.
C5_StrictCreation ==
    /\ [](Created /\ (\E i \in 1..Len(Refs) : MissingId(Refs[i].component_id))
            => \E i \in 1..Len(Refs) :
                  MissingId(Refs[i].component_id) /\ response = NotFound(Refs[i].component_id))
    /\ [][FailedCreationInsertsNothing]_vars

\* C5 amended: a build with a well-formed component_id that has no catalog entry
\* makes create_build fail and leaves the build collection unchanged; the error is
\* the not-found error naming the first such identifier when no malformed
\* component_id precedes it in the list, and the invalid-id error otherwise.
C5_StrictCreationFirstUnresolved ==
    /\ [](Created /\ (\E i \in 1..Len(Refs) : MissingId(Refs[i].component_id))
            => LET first == Refs[FirstUnresolved(Refs)].component_id
               IN response = IF MissingId(first) THEN NotFound(first) ELSE InvalidId)
    /\ [][FailedCreationInsertsNothing]_vars

\* C5 witness: the second reference has no catalog entry, the first resolves, and
\* create_build answered 404 naming the second.
C5_Witness ==
    /\ Created /\ Len(Refs) = 2 /\ build = <<>>
    /\ InCatalog(Refs[1].component_id) /\ MissingId(Refs[2].component_id)
    /\ response = NotFound(Refs[2].component_id)

\* C7: a malformed component_id makes create_build and validate_build fail with
\* the invalid-id error before any lookup in the component store, wherever the
\* malformed reference stands in the list.
C7_MalformedFailsFast ==
    (request.op \in {"create_build", "validate_build"} /\ ~AllWellFormed(Refs))
    => response = InvalidId /\ reads = 0

\* C8: under every interleaving the like collection never holds two records of
\* one (build_id, user_id) pair, and a build's likes counter is never incremented
\* twice for one pair (builds here start at likes = 0).
C8_LikeUniqueness ==
    /\ \A l \in BagToSet(like) : CopiesIn(l, like) <= 1
    /\ \A i \in 1..Len(build) :
          build[i].likes <= Cardinality({u \in Users : LikeExists(IdStr(i), u)})

PriceOf(ref) ==
    IF InCatalog(ref.component_id) /\ DocOf(ref.component_id).price # None
    THEN DocOf(ref.component_id).price[1] ELSE 0
\* The catalog only grows, so a reference resolves now to what it resolved to
\* when the build was created.
PriceOverReferences(cs) == SumSeq([i \in 1..Len(cs) |-> PriceOf(cs[i])])

\* C9: a stored build's total_price is the sum of the prices of the catalog
\* components its references resolve to, whatever total_price the client sent,
\* and no later operation changes a stored build's total_price or components.
C9_ServerSidePricing ==
    /\ [](\A i \in 1..Len(build) :
            build[i].total_price = PriceOverReferences(build[i].components))
    /\ []((Created /\ Returned)
            => /\ build[Len(build)].components = Refs
               /\ response.total_price = PriceOverReferences(Refs))
    /\ [][\A i \in 1..Len(build) :
            /\ Len(build') >= Len(build)
            /\ build'[i].total_price = build[i].total_price
            /\ build'[i].components = build[i].components]_vars

\* C9 witness: the client sent total_price 1 for a cpu and a motherboard and the
\* build is stored, and answered, at 500.
C9_Witness ==
    /\ Created /\ Returned
    /\ request.build.total_price = Some(1)
    /\ Len(build) = 1 /\ Len(build[1].components) = 2
    /\ build[1].total_price = 500
    /\ response.total_price = 500

\* C10: each stored build's likes counter equals the number of like records of
\* that build, and a like_build call that returns an error changes neither the
\* like collection nor any likes counter.
C10_LikeCounterConsistency ==
    /\ [](\A i \in 1..Len(build) :
            build[i].likes = Cardinality({u \in Users : LikeExists(IdStr(i), u)}))
    /\ [][(Idle /\ request'.op = "like_build" /\ response'.status # 200)
            => like' = like /\ build' = build]_vars

====
